---- MODULE Spec2Model ----
(***************************************************************************)
(* UnlockIt browser extension: the settings record, the action badge, the  *)
(* popup, the background service worker and the per-tab content scripts,   *)
(* as far as they coordinate through chrome.storage.local and messages.    *)
(*                                                                         *)
(* JavaScript values are encoded as strings: "true" and "false" are the    *)
(* two booleans, "undefined" a missing property, "str" and "num" a         *)
(* non-empty string and a non-zero number.  A settings value is a record   *)
(* with a kind ("object", "null", "undefined", "string") and the four      *)
(* flags; the version string of the record is never read by the code and   *)
(* is left out.                                                            *)
(*                                                                         *)
(* A handler of the background runs as one step, except the loop of        *)
(* togglePlugin, which takes one step per tab; saveAndNotify of the popup  *)
(* takes one step per await.  chrome.storage.local.get and the writes of   *)
(* 'unlockSettings' by the background resolve; a write by the popup and a  *)
(* write of the per-site settings may reject, and chrome.tabs.sendMessage  *)
(* rejects when the tab has no listener.                                   *)
(***************************************************************************)
EXTENDS Integers, Sequences, FiniteSets, TLC

\* ------------------------------------------------------------- bounds
MaxTabs == 2       \* tabs of a run with several tabs
LocalTabs == 1     \* tabs of a run of the whole extension
NumHosts == 2      \* hostnames of the pages visited

Tabs == 1..MaxTabs
Hosts == 1..NumHosts

\* ------------------------------------------------------------- JS values
Keys == {"mainEnabled", "copyEnabled", "pasteEnabled", "inputEnabled"}
Booleans == {"true", "false"}
JSValues == {"true", "false", "undefined", "str"}

IsBoolean(v) == v \in Booleans
Truthy(v) == v \in {"true", "str", "num"}
Not(v) == IF Truthy(v) THEN "false" ELSE "true"

Obj(m, c, p, i) ==
    [kind |-> "object", mainEnabled |-> m, copyEnabled |-> c,
     pasteEnabled |-> p, inputEnabled |-> i]

NonObject(k) ==
    [kind |-> k, mainEnabled |-> "undefined", copyEnabled |-> "undefined",
     pasteEnabled |-> "undefined", inputEnabled |-> "undefined"]

Undefined == NonObject("undefined")

\* every value a message or an older version may supply as a settings object
RawSettings ==
    {NonObject(k) : k \in {"undefined", "null", "string"}}
    \cup {Obj(m, c, p, i) : m \in JSValues, c \in {"true", "false", "undefined"},
                            p \in {"true", "str"}, i \in {"true", "undefined"}}

MutDefaultOn == Obj("true", "true", "true", "true")

DEFAULT_SETTINGS == Obj("false", "true", "true", "true")

MutValidateKeepsRaw(settings) ==
    IF settings.kind # "object" THEN DEFAULT_SETTINGS ELSE settings

validateSettings(settings) ==
    IF settings.kind # "object"
    THEN DEFAULT_SETTINGS
    ELSE [kind |-> "object",
          mainEnabled  |-> IF IsBoolean(settings.mainEnabled)
                           THEN settings.mainEnabled ELSE DEFAULT_SETTINGS.mainEnabled,
          copyEnabled  |-> IF IsBoolean(settings.copyEnabled)
                           THEN settings.copyEnabled ELSE DEFAULT_SETTINGS.copyEnabled,
          pasteEnabled |-> IF IsBoolean(settings.pasteEnabled)
                           THEN settings.pasteEnabled ELSE DEFAULT_SETTINGS.pasteEnabled,
          inputEnabled |-> IF IsBoolean(settings.inputEnabled)
                           THEN settings.inputEnabled ELSE DEFAULT_SETTINGS.inputEnabled]

ValidSettings == {Obj(m, c, p, i) : m \in Booleans, c \in Booleans,
                                    p \in Booleans, i \in Booleans}

\* ------------------------------------------------------------- state
VARIABLES
    stored,         \* chrome.storage.local['unlockSettings'] (Undefined when absent)
    written,        \* whether 'unlockSettings' has been written since the start
    badge,          \* chrome.action badge text: "", "ON" or "!"
    notifiedSites,  \* chrome.storage.local['notifiedSites']
    siteSettings,   \* chrome.storage.local['siteSettings'], per hostname
    timers,         \* pending 3 s badge-restore timers of showRestrictionNotification
    bgInbox,        \* 'restrictionDetected' messages on their way to the background
    bgResp,         \* the last answer to a 'restrictionDetected' message
    siteResp,       \* the last answer to a per-site settings message
    bgTask,         \* CommandHandler.togglePlugin in progress: its settings and loop
    net,            \* settings messages on their way to content scripts
    openTabs,       \* the tabs chrome.tabs.query({}) returns
    bc,             \* history: per sender, how far its broadcast is, the tabs
                    \* it was sent to and the tabs that rejected it
    pPc,            \* popup: "closed" or "open" (App.init done)
    pSettings,      \* popup State.settings
    pUi,            \* the settings UI.update rendered last
    pUpdating,      \* popup State.isUpdating
    pTimer,         \* the debounce timer of debouncedSave is pending
    pPhase,         \* saveAndNotify: "idle", "writing", "saved", "notifying"
    cs,             \* per tab: the content script's State
    page,           \* the content script of tab 1 from the inside: what it has
                    \* registered, its floating input, its mutation queue
    replies,        \* history: the sendResponse calls made for the message handled last
    everToggled,    \* history: whether the extension was ever asked to switch on
    last,           \* history: the name of the last step
    log,            \* history: the hostnames notified so far, oldest first
    burst,          \* the popup's debounce timer in time, and the history of the
                    \* current burst of clicks
    dom             \* history: the mutation records delivered to SmartDOMObserver

storeVars == <<stored, written, badge, notifiedSites, siteSettings, timers>>
bgVars == <<bgInbox, bgResp, siteResp, bgTask>>
popupVars == <<pPc, pSettings, pUi, pUpdating, pTimer, pPhase>>
progVars == <<storeVars, bgVars, net, openTabs, popupVars, cs, page>>
vars == <<progVars, bc, everToggled, last, log, burst, replies, dom>>

\* records an older version may have left under 'unlockSettings'
LegacyStored ==
    {Obj("true", "undefined", "true", "false"), Obj("str", "false", "str", "true")}

NoResp == [type |-> "none", host |-> 0, notified |-> "undefined"]
NoBroadcast == [phase |-> "none", sent |-> {}, failed |-> {}]
NoContentScript ==
    [pc |-> "none", settings |-> DEFAULT_SETTINGS, featuresOn |-> FALSE,
     detect |-> FALSE]

\* ------------------------------------------------------------- background
getSettings == validateSettings(stored)

\* IconManager.update: the badge text for a main switch value
IconManager_update(enabled) == IF Truthy(enabled) THEN "ON" ELSE ""

\* Storage.saveSettings of the background: validate, write, refresh the badge
Bg_saveSettings(settings) ==
    /\ stored' = validateSettings(settings)
    /\ written' = TRUE
    /\ badge' = IconManager_update(validateSettings(settings).mainEnabled)

\* Storage.resetSettings of the background
Bg_resetSettings ==
    /\ stored' = DEFAULT_SETTINGS
    /\ written' = TRUE
    /\ badge' = IconManager_update("false")

\* App.init of a restarted service worker: IconManager.init; its timers are gone
BgRestart ==
    /\ badge' = IconManager_update(getSettings.mainEnabled)
    /\ timers' = 0
    /\ UNCHANGED <<stored, written, notifiedSites, siteSettings, bgVars, net, openTabs, page,
                   popupVars, cs>>

\* Lifecycle.onInstalled, reason 'install': fired once, on a profile that
\* holds nothing of the extension yet
OnInstalled_install ==
    /\ stored = Undefined
    /\ Bg_saveSettings(DEFAULT_SETTINGS)
    /\ UNCHANGED <<notifiedSites, siteSettings, timers, bgVars, net, openTabs, page, popupVars, cs>>

MutMergeDefaultsLast(defaults, current) == defaults

\* {...DEFAULT_SETTINGS, ...currentSettings}: a property current has overrides
MergeSettings(defaults, current) ==
    [kind |-> "object",
     mainEnabled  |-> IF current.mainEnabled # "undefined"
                      THEN current.mainEnabled ELSE defaults.mainEnabled,
     copyEnabled  |-> IF current.copyEnabled # "undefined"
                      THEN current.copyEnabled ELSE defaults.copyEnabled,
     pasteEnabled |-> IF current.pasteEnabled # "undefined"
                      THEN current.pasteEnabled ELSE defaults.pasteEnabled,
     inputEnabled |-> IF current.inputEnabled # "undefined"
                      THEN current.inputEnabled ELSE defaults.inputEnabled]

OnInstalled_update ==
    /\ Bg_saveSettings(MergeSettings(DEFAULT_SETTINGS, getSettings))
    /\ UNCHANGED <<notifiedSites, siteSettings, timers, bgVars, net, openTabs, page, popupVars, cs>>

HandleSetSettings(settings) ==
    /\ Bg_saveSettings(settings)
    /\ UNCHANGED <<notifiedSites, siteSettings, timers, bgVars, net, openTabs, page, popupVars, cs>>

HandleResetSettings ==
    /\ Bg_resetSettings
    /\ UNCHANGED <<notifiedSites, siteSettings, timers, bgVars, net, openTabs, page, popupVars, cs>>

\* ContextMenuHandler.handleToggle: flip, save, toast in the clicked tab
ContextMenu_handleToggle ==
    /\ Bg_saveSettings([getSettings EXCEPT !.mainEnabled = Not(@)])
    /\ UNCHANGED <<notifiedSites, siteSettings, timers, bgVars, net, openTabs, page, popupVars, cs>>

\* ------------------------------------------------------------- restriction notices
NOTIFIED_LIMIT == 20

MutSliceKeepsOldest(sites) ==
    IF Len(sites) <= NOTIFIED_LIMIT THEN sites ELSE SubSeq(sites, 1, NOTIFIED_LIMIT)

\* sites.slice(-20) of saveNotifiedSites
SliceLast(sites) ==
    IF Len(sites) <= NOTIFIED_LIMIT
    THEN sites
    ELSE SubSeq(sites, Len(sites) - NOTIFIED_LIMIT + 1, Len(sites))

Includes(sites, h) == \E i \in 1..Len(sites) : sites[i] = h

MutNotifyWhenEnabled(h) == FALSE

\* the two early returns of handleRestrictionDetected
RestrictionSkipped(h) ==
    \/ Truthy(getSettings.mainEnabled)
    \/ Includes(notifiedSites, h)

\* MessageHandler.handleRestrictionDetected: push, saveNotifiedSites,
\* showRestrictionNotification (badge '!' and a 3 s restore timer)
HandleRestrictionDetected(h) ==
    /\ IF RestrictionSkipped(h)
       THEN /\ bgResp' = [type |-> "restrictionDetected", host |-> h,
                          notified |-> "false"]
            /\ UNCHANGED <<notifiedSites, badge, timers>>
       ELSE /\ notifiedSites' = SliceLast(Append(notifiedSites, h))
            /\ badge' = "!"
            /\ timers' = timers + 1
            /\ bgResp' = [type |-> "restrictionDetected", host |-> h,
                          notified |-> "true"]
    /\ UNCHANGED <<stored, written, siteSettings, siteResp>>

\* the message arrives at the background listener
DeliverRestriction(h) ==
    /\ h \in bgInbox
    /\ bgInbox' = bgInbox \ {h}
    /\ HandleRestrictionDetected(h)
    /\ UNCHANGED <<bgTask, net, openTabs, page, popupVars, cs>>

\* the setTimeout callback of showRestrictionNotification
RestoreBadge ==
    /\ timers > 0
    /\ timers' = timers - 1
    /\ badge' = IconManager_update(getSettings.mainEnabled)
    /\ UNCHANGED <<stored, written, notifiedSites, siteSettings, bgVars, net, openTabs, page,
                   popupVars, cs>>

\* ------------------------------------------------------------- per-site settings
MaxTime == 2       \* values Date.now() takes
Times == 1..MaxTime

\* A per-site value: its kind, one flag, and updatedAt (0 when it has none).
SiteValue(k, m, u) == [kind |-> k, mainEnabled |-> m, updatedAt |-> u]
NoSite == SiteValue("undefined", "undefined", 0)
Null == SiteValue("null", "undefined", 0)

\* the settings field of a 'setSiteSettings' message: an object with or
\* without an updatedAt of its own, null, missing, or the primitive true
SiteInputs ==
    {SiteValue("object", "true", 0), SiteValue("object", "false", 1),
     Null, NoSite, SiteValue("boolean", "undefined", 0)}

NoSiteResp == [type |-> "none", host |-> 0, success |-> "undefined", settings |-> NoSite]

\* SiteSettingsManager.getSiteSettings: allSiteSettings[hostname] || null
getSiteSettings(all, hostname) ==
    IF all[hostname].kind = "object" THEN all[hostname] ELSE Null

MutSaveDropsOthers(all, hostname, settings, now) ==
    [h \in DOMAIN all |->
        IF h = hostname /\ settings.kind \in {"object", "boolean"}
        THEN SiteValue("object", settings.mainEnabled, now) ELSE NoSite]

\* SiteSettingsManager.saveSiteSettings, the map it writes:
\* {...settings, updatedAt: Date.now()} when settings is truthy, else delete
saveSiteSettings(all, hostname, settings, now) ==
    IF settings.kind \in {"object", "boolean"}
    THEN [all EXCEPT ![hostname] = SiteValue("object", settings.mainEnabled, now)]
    ELSE [all EXCEPT ![hostname] = NoSite]

HandleGetSiteSettings(hostname) ==
    /\ siteResp' = [type |-> "getSiteSettings", host |-> hostname,
                    success |-> "true",
                    settings |-> getSiteSettings(siteSettings, hostname)]
    /\ UNCHANGED <<stored, written, badge, notifiedSites, siteSettings, timers,
                   bgInbox, bgResp, bgTask, net, openTabs, page, popupVars, cs>>

\* ok: the read and the write of chrome.storage.local both resolve
HandleSetSiteSettings(hostname, settings, now, ok) ==
    /\ siteSettings' = IF ok
                       THEN saveSiteSettings(siteSettings, hostname, settings, now)
                       ELSE siteSettings
    /\ siteResp' = [type |-> "setSiteSettings", host |-> hostname,
                    success |-> IF ok THEN "true" ELSE "false",
                    settings |-> NoSite]
    /\ UNCHANGED <<stored, written, badge, notifiedSites, timers,
                   bgInbox, bgResp, bgTask, net, openTabs, page, popupVars, cs>>

\* saveSiteSettings(hostname, null) never reaches Date.now()
HandleClearSiteSettings(hostname, ok) ==
    /\ siteSettings' = IF ok
                       THEN saveSiteSettings(siteSettings, hostname, Null, 0)
                       ELSE siteSettings
    /\ siteResp' = [type |-> "clearSiteSettings", host |-> hostname,
                    success |-> IF ok THEN "true" ELSE "false",
                    settings |-> NoSite]
    /\ UNCHANGED <<stored, written, badge, notifiedSites, timers,
                   bgInbox, bgResp, bgTask, net, openTabs, page, popupVars, cs>>

\* ------------------------------------------------------------- broadcasts
Msg(t, settings, src) == [to |-> t, settings |-> settings, src |-> src]
InFlight(src) == {m \in net : m.src = src}

RECURSIVE SeqOf(_)
\* the tabs of chrome.tabs.query({}) in the order the loop visits them
SeqOf(S) ==
    IF S = {} THEN <<>>
    ELSE LET t == CHOOSE x \in S : \A y \in S : x <= y
         IN  <<t>> \o SeqOf(S \ {t})

Toggled(settings) == [settings EXCEPT !.mainEnabled = Not(@)]

\* CommandHandler.togglePlugin up to chrome.tabs.query
TogglePlugin_start ==
    /\ ~bgTask.active
    /\ Bg_saveSettings(Toggled(getSettings))
    /\ bgTask' = [active |-> TRUE, settings |-> Toggled(getSettings),
                  todo |-> SeqOf(openTabs)]
    /\ UNCHANGED <<notifiedSites, siteSettings, timers, bgInbox, bgResp, siteResp, net, openTabs, page,
                   popupVars, cs>>

\* one turn of its for loop: await chrome.tabs.sendMessage(tab.id, ...)
TogglePlugin_send ==
    /\ bgTask.active
    /\ InFlight("bg") = {}
    /\ bgTask.todo # <<>>
    /\ net' = net \cup {Msg(Head(bgTask.todo), bgTask.settings, "bg")}
    /\ bgTask' = [bgTask EXCEPT !.todo = Tail(@)]
    /\ UNCHANGED <<storeVars, bgInbox, bgResp, siteResp, openTabs, page, popupVars, cs>>

TogglePlugin_done ==
    /\ bgTask.active
    /\ InFlight("bg") = {}
    /\ bgTask.todo = <<>>
    /\ bgTask' = [bgTask EXCEPT !.active = FALSE]
    /\ UNCHANGED <<storeVars, bgInbox, bgResp, siteResp, net, openTabs, page, popupVars, cs>>

\* ------------------------------------------------------------- content script
enableFeatures(c) == [c EXCEPT !.featuresOn = TRUE]
disableFeatures(c) == [c EXCEPT !.featuresOn = FALSE]

\* State.updateSettings of the content script
Content_updateSettings(c, newSettings) ==
    LET validated == validateSettings(newSettings)
        c1 == [c EXCEPT !.settings = validated]
    IN  IF c.settings.mainEnabled # validated.mainEnabled
        THEN IF Truthy(validated.mainEnabled)
             THEN enableFeatures(c1) ELSE disableFeatures(c1)
        ELSE c1

\* Messaging.handleMessage, cases 'settingsUpdated' and 'settingsChanged';
\* message.settings.mainEnabled throws when message.settings is undefined or null
Content_handleMessage(c, settings) ==
    LET c1 == Content_updateSettings(c, settings)
    IN  IF settings.kind \in {"undefined", "null"} THEN c1
        ELSE IF Truthy(settings.mainEnabled)
             THEN enableFeatures(c1) ELSE disableFeatures(c1)

\* the State of a content script when its App.init is done
Content_started ==
    LET c0 == [NoContentScript EXCEPT !.pc = "ready"]
        c1 == Content_updateSettings(c0, getSettings)
    IN  IF Truthy(c1.settings.mainEnabled)
        THEN enableFeatures(c1)
        ELSE [c1 EXCEPT !.detect = TRUE]

Content_init(t) ==
    /\ t \in openTabs
    /\ cs[t].pc = "none"
    /\ cs' = [cs EXCEPT ![t] = Content_started]
    /\ UNCHANGED <<storeVars, bgVars, net, openTabs, page, popupVars>>

\* the 2 s timer of App.detectRestrictions fires on a page of host h;
\* restricted is what CopyRestrictionDetector.detect finds there
Content_detect(t, h, restricted) ==
    /\ cs[t].detect
    /\ cs' = [cs EXCEPT ![t].detect = FALSE]
    /\ bgInbox' = IF restricted THEN bgInbox \cup {h} ELSE bgInbox
    /\ UNCHANGED <<storeVars, bgResp, siteResp, bgTask, net, openTabs, page, popupVars>>

\* the page of tab t unloads: its content script is gone
Content_unload(t) ==
    /\ cs[t].pc = "ready"
    /\ cs' = [cs EXCEPT ![t] = NoContentScript]
    /\ UNCHANGED <<storeVars, bgVars, net, openTabs, page, popupVars>>

MutAbortOnReject(task) == [task EXCEPT !.todo = <<>>]

\* catch (e) {} around the send of togglePlugin: the loop goes on
TogglePlugin_catch(task) == task

\* a settings message reaches tab m.to, or is rejected for want of a listener
Deliver(m) ==
    /\ m \in net
    /\ net' = net \ {m}
    /\ IF cs[m.to].pc = "ready"
       THEN /\ cs' = [cs EXCEPT ![m.to] = Content_handleMessage(@, m.settings)]
            /\ UNCHANGED bgTask
       ELSE /\ bgTask' = IF m.src = "bg" THEN TogglePlugin_catch(bgTask) ELSE bgTask
            /\ UNCHANGED cs
    /\ UNCHANGED <<storeVars, bgInbox, bgResp, siteResp, openTabs, page, popupVars>>

\* ------------------------------------------------------------- popup
SwitchKeys == {"main", "copy", "paste", "input"}

MutToggleIgnoresMain(settings, isUpdating, key) ==
    IF isUpdating THEN settings
    ELSE CASE key = "main"  -> [settings EXCEPT !.mainEnabled = Not(@)]
           [] key = "copy"  -> [settings EXCEPT !.copyEnabled = Not(@)]
           [] key = "paste" -> [settings EXCEPT !.pasteEnabled = Not(@)]
           [] key = "input" -> [settings EXCEPT !.inputEnabled = Not(@)]

MutToggleWhileUpdating(settings, isUpdating, key) ==
    CASE key = "main"  -> [settings EXCEPT !.mainEnabled = Not(@)]
      [] key = "copy"  -> IF Truthy(settings.mainEnabled)
                          THEN [settings EXCEPT !.copyEnabled = Not(@)]
                          ELSE settings
      [] key = "paste" -> IF Truthy(settings.mainEnabled)
                          THEN [settings EXCEPT !.pasteEnabled = Not(@)]
                          ELSE settings
      [] key = "input" -> IF Truthy(settings.mainEnabled)
                          THEN [settings EXCEPT !.inputEnabled = Not(@)]
                          ELSE settings

\* State.toggle of the popup: the new State.settings
Popup_toggle(settings, isUpdating, key) ==
    IF isUpdating THEN settings
    ELSE CASE key = "main"  -> [settings EXCEPT !.mainEnabled = Not(@)]
           [] key = "copy"  -> IF Truthy(settings.mainEnabled)
                               THEN [settings EXCEPT !.copyEnabled = Not(@)]
                               ELSE settings
           [] key = "paste" -> IF Truthy(settings.mainEnabled)
                               THEN [settings EXCEPT !.pasteEnabled = Not(@)]
                               ELSE settings
           [] key = "input" -> IF Truthy(settings.mainEnabled)
                               THEN [settings EXCEPT !.inputEnabled = Not(@)]
                               ELSE settings

DEBOUNCE_DELAY == 100     \* ms, Utils.debounce(this.saveAndNotify.bind(this), 100)
TickMs == 50              \* ms that pass in one step of time
MaxClicks == 3            \* clicks of one burst

\* clicks: the clicks of the current burst; calls: the saveAndNotify calls
\* made since it began; since: ms since the last click; armed: ms since
\* setTimeout armed the pending timer; call: what became of the burst's
\* saveAndNotify call ("none" until it is made, "running", then "skipped",
\* "failed" or "saved"); failed: a storage write of this popup has failed
NoBurst ==
    [clicks |-> 0, calls |-> 0, since |-> 0, armed |-> 0, call |-> "none",
     failed |-> FALSE]

MutKeepTimer(pending, armed) == IF pending THEN armed ELSE 0

\* the function Utils.debounce returns: clearTimeout, then setTimeout(fn, delay);
\* the age of the pending timer afterwards
Debounce_arm(pending, armed) == 0

\* App.init of the popup
Popup_init ==
    /\ pPc = "closed"
    /\ pPc' = "open"
    /\ pSettings' = validateSettings(getSettings)
    /\ pUi' = validateSettings(getSettings)
    /\ UNCHANGED <<pUpdating, pTimer, pPhase>>
    /\ UNCHANGED <<storeVars, bgVars, net, openTabs, page, cs>>

\* a click on a switch: State.toggle(key), then debouncedSave().  UI.update
\* leaves the sub-switches with pointer-events none while it shows main off.
Popup_click(key) ==
    /\ pPc = "open"
    /\ key = "main" \/ Truthy(pUi.mainEnabled)
    /\ pSettings' = Popup_toggle(pSettings, pUpdating, key)
    /\ pTimer' = TRUE
    /\ UNCHANGED <<pPc, pUi, pUpdating, pPhase>>
    /\ UNCHANGED <<storeVars, bgVars, net, openTabs, page, cs>>

\* the debounce timer fires: saveAndNotify up to the storage write
Popup_saveAndNotify ==
    /\ pPc = "open"
    /\ pTimer
    /\ pTimer' = FALSE
    /\ IF pUpdating
       THEN UNCHANGED <<pUpdating, pPhase>>
       ELSE pUpdating' = TRUE /\ pPhase' = "writing"
    /\ UNCHANGED <<pPc, pSettings, pUi>>
    /\ UNCHANGED <<storeVars, bgVars, net, openTabs, page, cs>>

\* Storage.saveSettings of the popup resolves (ok) or rejects
Popup_saveSettings(ok) ==
    /\ pPhase = "writing"
    /\ IF ok
       THEN /\ stored' = validateSettings(pSettings)
            /\ written' = TRUE
            /\ pPhase' = "saved"
            /\ UNCHANGED pUpdating
       ELSE /\ pPhase' = "idle"
            /\ pUpdating' = FALSE
            /\ UNCHANGED <<stored, written>>
    /\ UNCHANGED <<pPc, pSettings, pUi, pTimer>>
    /\ UNCHANGED <<badge, notifiedSites, siteSettings, timers, bgVars, net, openTabs, page, cs>>

\* Messaging.notifyAllTabs: one sendMessage per tab, all at once
Popup_notifyAllTabs ==
    /\ pPhase = "saved"
    /\ pPhase' = "notifying"
    /\ net' = net \cup {Msg(t, pSettings, "popup") : t \in openTabs}
    /\ UNCHANGED <<pPc, pSettings, pUi, pUpdating, pTimer>>
    /\ UNCHANGED <<storeVars, bgVars, openTabs, page, cs>>

\* Promise.all has settled: UI.update, then finally isUpdating = false
Popup_notified ==
    /\ pPhase = "notifying"
    /\ InFlight("popup") = {}
    /\ pPhase' = "idle"
    /\ pUi' = pSettings
    /\ pUpdating' = FALSE
    /\ UNCHANGED <<pPc, pSettings, pTimer>>
    /\ UNCHANGED <<storeVars, bgVars, net, openTabs, page, cs>>

\* the popup window closes between saves; its timer dies with it
Popup_close ==
    /\ pPc = "open"
    /\ pPhase = "idle"
    /\ pPc' = "closed"
    /\ pSettings' = DEFAULT_SETTINGS
    /\ pUi' = DEFAULT_SETTINGS
    /\ pTimer' = FALSE
    /\ UNCHANGED <<pUpdating, pPhase>>
    /\ UNCHANGED <<storeVars, bgVars, net, openTabs, page, cs>>

\* ------------------------------------------------------------- inside a content script
MaxEnables == 3    \* calls of enableFeatures between two disableFeatures

\* what one enableFeatures registers on a page without a site handler: the
\* observers of ShadowDOMHandler.init and IframeHandler.init, the keydown
\* and dblclick listeners
ObserversPerEnable == 2
ListenersPerEnable == 2

\* State.observers, State.eventListeners and State.featureCleanupFns by
\* their sizes; FloatingInput.currentBox is "null", "attached" (in the
\* document) or "detached" (the page has removed the node); timeoutId tells
\* whether the timer of typeNext is pending; mainObserver tells whether
\* SmartDOMObserver.mainObserver is set, pendingMutations holds the queued
\* mutation records by their numbers, batchTimer tells whether the timer of
\* handleMutations is pending and batchAge the ms since it was armed
NoPage ==
    [observers |-> 0, eventListeners |-> 0, featureCleanupFns |-> 0,
     currentBox |-> "null", isTyping |-> FALSE, timeoutId |-> FALSE,
     mainObserver |-> FALSE, pendingMutations |-> <<>>, batchTimer |-> FALSE,
     batchAge |-> 0]

NoReplies == [to |-> "none", type |-> "none", count |-> 0]

FloatingInput_stopTyping(p) == [p EXCEPT !.isTyping = FALSE, !.timeoutId = FALSE]

\* FloatingInput.destroy: the box is forgotten only if it has a parentNode
FloatingInput_destroy(p) ==
    LET q == FloatingInput_stopTyping(p)
    IN  IF q.currentBox = "attached" THEN [q EXCEPT !.currentBox = "null"] ELSE q

FloatingInput_create(p, settings) ==
    IF ~Truthy(settings.mainEnabled) \/ ~Truthy(settings.inputEnabled) THEN p
    ELSE IF p.currentBox # "null" THEN p
    ELSE [p EXCEPT !.currentBox = "attached"]

THROTTLE_DELAY == 16      \* ms, CONFIG.THROTTLE_DELAY
DomTickMs == 8            \* ms that pass in one step of the page's time
MaxMutations == 4         \* mutation records delivered to one page
MaxRecords == 2           \* mutation records in one callback

\* a mutation record by what isValidMutation looks at
MutationKinds ==
    {[type |-> "childList", node |-> "element", tag |-> "div", processed |-> FALSE],
     [type |-> "attributes", node |-> "element", tag |-> "div", processed |-> FALSE],
     [type |-> "attributes", node |-> "element", tag |-> "div", processed |-> TRUE],
     [type |-> "childList", node |-> "element", tag |-> "script", processed |-> FALSE],
     [type |-> "characterData", node |-> "text", tag |-> "none", processed |-> FALSE]}

isValidMutation(mutation) ==
    IF mutation.type = "characterData" THEN FALSE
    ELSE IF mutation.node # "element" THEN FALSE
    ELSE IF mutation.tag \in {"script", "style", "link"} THEN FALSE
    ELSE IF mutation.type = "attributes" /\ mutation.processed THEN FALSE
    ELSE TRUE

\* mutations.filter(m => this.isValidMutation(m)) over records numbered from
\* first on: the numbers of the records kept, in order
RECURSIVE ValidMutations(_, _)
ValidMutations(mutations, first) ==
    IF mutations = <<>> THEN <<>>
    ELSE (IF isValidMutation(Head(mutations)) THEN <<first>> ELSE <<>>)
            \o ValidMutations(Tail(mutations), first + 1)

\* SmartDOMObserver.handleMutations
SmartDOMObserver_handleMutations(p, mutations, first) ==
    LET validMutations == ValidMutations(mutations, first)
    IN  IF validMutations = <<>> THEN p
        ELSE [p EXCEPT !.pendingMutations = @ \o validMutations,
                       !.batchTimer = TRUE,
                       !.batchAge = 0]

MutSpliceOne(pending) == IF pending = <<>> THEN <<>> ELSE <<Head(pending)>>

\* this.pendingMutations.splice(0): the records removed and returned
Splice0(pending) == pending

\* SmartDOMObserver.batchProcess: what is left in the queue
SmartDOMObserver_batchProcess(p) ==
    [p EXCEPT !.pendingMutations =
                  SubSeq(@, Len(Splice0(@)) + 1, Len(@))]

\* SmartDOMObserver.init
SmartDOMObserver_init(p) ==
    IF p.mainObserver THEN p
    ELSE SmartDOMObserver_batchProcess([p EXCEPT !.mainObserver = TRUE])

App_enableFeatures(p) ==
    LET q == SmartDOMObserver_init(p)
    IN  [q EXCEPT !.observers = @ + ObserversPerEnable,
                  !.eventListeners = @ + ListenersPerEnable]

\* App.disableFeatures: disconnectAllObservers, cleanupEventListeners,
\* runFeatureCleanup, FloatingInput.destroy
App_disableFeatures(p) ==
    FloatingInput_destroy([p EXCEPT !.observers = 0, !.eventListeners = 0,
                                    !.featureCleanupFns = 0])

\* the calls of enableFeatures and disableFeatures State.updateSettings makes
CallsOfUpdate(c, newSettings) ==
    LET validated == validateSettings(newSettings)
    IN  IF c.settings.mainEnabled # validated.mainEnabled
        THEN <<IF Truthy(validated.mainEnabled) THEN "enable" ELSE "disable">>
        ELSE <<>>

\* ... and those of Messaging.handleMessage for a settings message
CallsOfMessage(c, settings) ==
    CallsOfUpdate(c, settings)
        \o (IF settings.kind \in {"undefined", "null"} THEN <<>>
            ELSE <<IF Truthy(settings.mainEnabled) THEN "enable" ELSE "disable">>)

\* ... and those of App.init
CallsOfInit(c) ==
    CallsOfUpdate(c, getSettings)
        \o (IF Truthy(getSettings.mainEnabled) THEN <<"enable">> ELSE <<>>)

RECURSIVE RunCalls(_, _)
RunCalls(p, calls) ==
    IF calls = <<>> THEN p
    ELSE RunCalls(IF Head(calls) = "enable" THEN App_enableFeatures(p)
                  ELSE App_disableFeatures(p), Tail(calls))

LastCall(calls, other) == IF calls = <<>> THEN other ELSE calls[Len(calls)]

\* no record delivered yet
NoDom ==
    [arrived |-> 0, accepted |-> {}, handled |-> [r \in 1..MaxMutations |-> 0],
     runs |-> 0, idle |-> 0]

pageRest == <<storeVars, bgVars, net, openTabs, popupVars>>

\* App.init in tab 1
Page_init ==
    /\ 1 \in openTabs
    /\ cs[1].pc = "none"
    /\ cs' = [cs EXCEPT ![1] = Content_started]
    /\ page' = RunCalls(NoPage, CallsOfInit(NoContentScript))
    /\ UNCHANGED pageRest

\* a 'settingsUpdated' or 'settingsChanged' message is handled in tab 1
Page_settingsMessage(settings) ==
    /\ cs[1].pc = "ready"
    /\ cs' = [cs EXCEPT ![1] = Content_handleMessage(@, settings)]
    /\ page' = RunCalls(page, CallsOfMessage(cs[1], settings))
    /\ UNCHANGED pageRest

\* 'openFloatingInput', Ctrl+Shift+M or a double click on an input
Page_openFloatingInput ==
    /\ cs[1].pc = "ready"
    /\ page' = FloatingInput_create(page, cs[1].settings)
    /\ UNCHANGED <<pageRest, cs>>

\* FloatingInput.typeText from the box's start button
Page_typeText ==
    /\ cs[1].pc = "ready"
    /\ page.currentBox = "attached"
    /\ ~page.isTyping
    /\ Truthy(cs[1].settings.mainEnabled) /\ Truthy(cs[1].settings.inputEnabled)
    /\ page' = [page EXCEPT !.isTyping = TRUE, !.timeoutId = TRUE]
    /\ UNCHANGED <<pageRest, cs>>

\* the timer of typeNext fires; done: every character has been typed
Page_typeNext(done) ==
    /\ page.timeoutId
    /\ page' = IF done \/ page.currentBox = "null"
                  \/ ~Truthy(cs[1].settings.mainEnabled)
                  \/ ~Truthy(cs[1].settings.inputEnabled)
               THEN FloatingInput_destroy(page)
               ELSE page
    /\ UNCHANGED <<pageRest, cs>>

\* the close button of the box, or a mousedown outside it
Page_closeBox ==
    /\ page.currentBox = "attached"
    /\ page' = FloatingInput_destroy(page)
    /\ UNCHANGED <<pageRest, cs>>

\* the page replaces the content of document.body: the box leaves the document
Page_removesBox ==
    /\ page.currentBox = "attached"
    /\ page' = [page EXCEPT !.currentBox = "detached"]
    /\ UNCHANGED <<pageRest, cs>>

\* the callback of SmartDOMObserver.mainObserver with its records, numbered
\* from first on
Page_mutations(mutations, first) ==
    /\ cs[1].pc = "ready"
    /\ page.mainObserver
    /\ page' = IF ~Truthy(cs[1].settings.mainEnabled) THEN page
               ELSE SmartDOMObserver_handleMutations(page, mutations, first)
    /\ UNCHANGED <<pageRest, cs>>

\* the timer of handleMutations fires
Page_batchTimer ==
    /\ page.batchTimer
    /\ page.batchAge >= THROTTLE_DELAY
    /\ page' = SmartDOMObserver_batchProcess(
                   [page EXCEPT !.batchTimer = FALSE, !.batchAge = 0])
    /\ UNCHANGED <<pageRest, cs>>

\* DomTickMs ms pass on the page while the timer is pending and not due
Page_tick ==
    /\ page.batchTimer
    /\ page.batchAge < THROTTLE_DELAY
    /\ page' = [page EXCEPT !.batchAge = @ + DomTickMs]
    /\ UNCHANGED <<pageRest, cs>>

\* beforeunload: the page and its content script are gone
Page_unload ==
    /\ cs[1].pc = "ready"
    /\ cs' = [cs EXCEPT ![1] = NoContentScript]
    /\ page' = NoPage
    /\ UNCHANGED pageRest

\* ------------------------------------------------------------- specification
\* a fresh profile, or one an older version has written to
InitStore ==
    \/ stored = Undefined /\ everToggled = FALSE
    \/ stored \in LegacyStored /\ everToggled = TRUE

InitRest ==
    /\ written = FALSE
    /\ badge = IconManager_update(getSettings.mainEnabled)
    /\ siteSettings = [h \in Hosts |-> NoSite]
    /\ timers = 0
    /\ bgInbox = {}
    /\ bgResp = NoResp
    /\ siteResp = NoSiteResp
    /\ last = "init"
    /\ bgTask = [active |-> FALSE, settings |-> DEFAULT_SETTINGS, todo |-> <<>>]
    /\ net = {}
    /\ bc = [popup |-> NoBroadcast, bg |-> NoBroadcast]
    /\ pPc = "closed"
    /\ pSettings = DEFAULT_SETTINGS
    /\ pUi = DEFAULT_SETTINGS
    /\ pUpdating = FALSE
    /\ pTimer = FALSE
    /\ pPhase = "idle"
    /\ cs = [t \in Tabs |-> NoContentScript]
    /\ page = NoPage
    /\ replies = NoReplies
    /\ burst = NoBurst
    /\ dom = NoDom

Init ==
    /\ InitStore
    /\ InitRest
    /\ openTabs = 1..LocalTabs
    /\ notifiedSites = <<>>
    /\ log = <<>>

\* the switches clicked and the settings sent in a run of the whole extension
LocalKeys == {"main"}
LocalRaw ==
    {Undefined, NonObject("string")}
        \cup {Obj(m, "undefined", "str", "true") : m \in JSValues}

\* the history variables, which no handler reads
hist == <<bc, everToggled, last, log, burst, replies, dom>>

Next ==
    \/ BgRestart /\ UNCHANGED hist
    \/ OnInstalled_install /\ UNCHANGED hist
    \/ OnInstalled_update /\ UNCHANGED hist
    \/ \E s \in LocalRaw : HandleSetSettings(s) /\ UNCHANGED hist
    \/ HandleResetSettings /\ UNCHANGED hist
    \/ ContextMenu_handleToggle /\ UNCHANGED hist
    \/ TogglePlugin_start /\ UNCHANGED hist
    \/ TogglePlugin_send /\ UNCHANGED hist
    \/ TogglePlugin_done /\ UNCHANGED hist
    \/ \E t \in Tabs : Content_init(t) /\ UNCHANGED hist
    \/ \E t \in Tabs : Content_unload(t) /\ UNCHANGED hist
    \/ \E m \in net : Deliver(m) /\ UNCHANGED hist
    \/ Popup_init /\ UNCHANGED hist
    \/ \E k \in LocalKeys : Popup_click(k) /\ UNCHANGED hist
    \/ Popup_saveAndNotify /\ UNCHANGED hist
    \/ \E ok \in BOOLEAN : Popup_saveSettings(ok) /\ UNCHANGED hist
    \/ Popup_notifyAllTabs /\ UNCHANGED hist
    \/ Popup_notified /\ UNCHANGED hist
    \/ Popup_close /\ UNCHANGED hist

Spec == Init /\ [][Next]_vars

\* ------------------------------------------------------------- restriction notices
\* The background, the content scripts and the restriction notices, without
\* the popup.  everToggled records a request to switch the extension on.
NextNotice ==
    \/ BgRestart /\ UNCHANGED hist
    \/ OnInstalled_install /\ UNCHANGED hist
    \/ OnInstalled_update /\ UNCHANGED hist
    \/ \E s \in LocalRaw :
          /\ HandleSetSettings(s)
          /\ everToggled' = (everToggled \/ s.mainEnabled = "true")
          /\ UNCHANGED <<bc, last, log, burst, replies, dom>>
    \/ HandleResetSettings /\ UNCHANGED hist
    \/ ContextMenu_handleToggle /\ everToggled' = TRUE
                                /\ UNCHANGED <<bc, last, log, burst, replies, dom>>
    \/ \E h \in Hosts : DeliverRestriction(h) /\ UNCHANGED hist
    \/ RestoreBadge /\ UNCHANGED hist
    \/ \E t \in Tabs : Content_init(t) /\ UNCHANGED hist
    \/ \E t \in Tabs, h \in Hosts, r \in BOOLEAN :
          Content_detect(t, h, r) /\ UNCHANGED hist
    \/ \E t \in Tabs : Content_unload(t) /\ UNCHANGED hist

SpecNotice == Init /\ [][NextNotice]_vars

\* ------------------------------------------------------------- the switches
\* The popup with its four switches, the store and the lifecycle events of
\* the background.  last records the step taken.
Did(name) == last' = name /\ UNCHANGED <<bc, everToggled, log, burst, replies, dom>>

NextSwitches ==
    \/ BgRestart /\ Did("restart")
    \/ OnInstalled_install /\ Did("install")
    \/ OnInstalled_update /\ Did("update")
    \/ \E t \in Tabs : Content_init(t) /\ Did("content")
    \/ \E m \in net : Deliver(m) /\ Did("deliver")
    \/ Popup_init /\ Did("popup")
    \/ \E k \in SwitchKeys : Popup_click(k) /\ Did("click")
    \/ Popup_saveAndNotify /\ Did("timer")
    \/ \E ok \in BOOLEAN : Popup_saveSettings(ok) /\ Did("save")
    \/ Popup_notifyAllTabs /\ Did("notify")
    \/ Popup_notified /\ Did("notified")
    \/ Popup_close /\ Did("close")

SpecSwitches == Init /\ [][NextSwitches]_vars

\* ------------------------------------------------------------- several tabs
\* Broadcasts of the popup and of togglePlugin over MaxTabs tabs, some of
\* them without a content script.  bc follows each broadcast: the tabs a
\* message was sent to and the tabs whose sendMessage rejected.
Track ==
    LET sentTo(src) == {m.to : m \in {x \in net' \ net : x.src = src}}
        rejected(src) == {m.to : m \in {x \in net \ net' :
                                           x.src = src /\ cs[x.to].pc # "ready"}}
        begun(src) == IF src = "bg" THEN ~bgTask.active /\ bgTask'.active
                      ELSE pPhase = "saved" /\ pPhase' = "notifying"
        ended(src) == IF src = "bg" THEN bgTask.active /\ ~bgTask'.active
                      ELSE pPhase = "notifying" /\ pPhase' = "idle"
        dropped(src) == src = "popup" /\ pPhase' = "writing"
    IN  bc' = [src \in {"popup", "bg"} |->
                 IF dropped(src) THEN NoBroadcast
                 ELSE IF begun(src)
                      THEN [phase |-> "sending", sent |-> sentTo(src), failed |-> {}]
                      ELSE [phase  |-> IF ended(src) THEN "done" ELSE bc[src].phase,
                            sent   |-> bc[src].sent \cup sentTo(src),
                            failed |-> bc[src].failed \cup rejected(src)]]

Followed == Track /\ UNCHANGED <<everToggled, last, log, burst, replies, dom>>

InitBroadcast ==
    /\ stored = Undefined
    /\ everToggled = FALSE
    /\ InitRest
    /\ openTabs = Tabs
    /\ notifiedSites = <<>>
    /\ log = <<>>

NextBroadcast ==
    \/ TogglePlugin_start /\ Followed
    \/ TogglePlugin_send /\ Followed
    \/ TogglePlugin_done /\ Followed
    \/ \E t \in Tabs : Content_init(t) /\ Followed
    \/ \E t \in Tabs : Content_unload(t) /\ Followed
    \/ \E m \in net : Deliver(m) /\ Followed
    \/ Popup_init /\ Followed
    \/ \E k \in LocalKeys : Popup_click(k) /\ Followed
    \/ Popup_saveAndNotify /\ Followed
    \/ \E ok \in BOOLEAN : Popup_saveSettings(ok) /\ Followed
    \/ Popup_notifyAllTabs /\ Followed
    \/ Popup_notified /\ Followed

SpecBroadcast == InitBroadcast /\ [][NextBroadcast]_vars

\* ------------------------------------------------------------- many sites
\* Restriction notices from one tab over more hostnames than the list
\* keeps, starting from a list earlier notices have nearly or wholly
\* filled.  log records every hostname notified.
ExtraHosts == 2    \* hostnames beyond the NOTIFIED_LIMIT the list keeps
MaxNotices == 3    \* notices of a run
ManyHosts == 1..(NOTIFIED_LIMIT + ExtraHosts)

FirstHosts(n) == [i \in 1..n |-> i]

InitSites ==
    /\ stored = Undefined
    /\ everToggled = FALSE
    /\ InitRest
    /\ openTabs = {1}
    /\ notifiedSites \in {FirstHosts(NOTIFIED_LIMIT - 1), FirstHosts(NOTIFIED_LIMIT)}
    /\ log = notifiedSites

NextSites ==
    \/ ContextMenu_handleToggle /\ UNCHANGED hist
    \/ \E t \in openTabs : Content_init(t) /\ UNCHANGED hist
    \/ \E t \in openTabs, h \in ManyHosts, r \in BOOLEAN :
          /\ bgInbox = {}
          /\ Len(log) < NOTIFIED_LIMIT + MaxNotices
          /\ Content_detect(t, h, r)
          /\ UNCHANGED hist
    \/ \E t \in openTabs : Content_unload(t) /\ UNCHANGED hist
    \/ \E h \in ManyHosts :
          /\ DeliverRestriction(h)
          /\ log' = IF bgResp'.notified = "true" THEN Append(log, h) ELSE log
          /\ UNCHANGED <<bc, everToggled, last, burst, replies, dom>>

SpecSites == InitSites /\ [][NextSites]_vars

\* ------------------------------------------------------------- site overrides
\* The per-site settings messages, in any order.
NextSite ==
    \/ \E h \in Hosts : HandleGetSiteSettings(h) /\ Did("get")
    \/ \E h \in Hosts, s \in SiteInputs, now \in Times :
          HandleSetSiteSettings(h, s, now, TRUE) /\ Did("set")
    \/ \E h \in Hosts, s \in SiteInputs :
          HandleSetSiteSettings(h, s, MaxTime, FALSE) /\ Did("set")
    \/ \E h \in Hosts, ok \in BOOLEAN :
          HandleClearSiteSettings(h, ok) /\ Did("clear")

SpecSite == Init /\ [][NextSite]_vars

\* ------------------------------------------------------------- one page
\* The content script of tab 1 with what it registers and its floating
\* input.  last records the last call among enableFeatures and
\* disableFeatures when the step made one.
Called(calls, other) ==
    /\ last' = LastCall(calls, other)
    /\ UNCHANGED <<bc, everToggled, log, burst, replies, dom>>

PageSettings == {Obj(m, "true", "true", i) : m \in Booleans, i \in Booleans}

NextPage ==
    \/ Page_init /\ Called(CallsOfInit(NoContentScript), "init")
    \/ \E s \in PageSettings \cup {Undefined} :
          /\ RunCalls(page, CallsOfMessage(cs[1], s)).observers
                <= MaxEnables * ObserversPerEnable
          /\ Page_settingsMessage(s)
          /\ Called(CallsOfMessage(cs[1], s), "message")
    \/ Page_openFloatingInput /\ Called(<<>>, "open")
    \/ Page_typeText /\ Called(<<>>, "type")
    \/ \E done \in BOOLEAN : Page_typeNext(done) /\ Called(<<>>, "typeNext")
    \/ Page_closeBox /\ Called(<<>>, "close")
    \/ Page_removesBox /\ Called(<<>>, "removed")
    \/ Page_unload /\ Called(<<>>, "unload")

SpecPage == Init /\ [][NextPage]_vars

\* ------------------------------------------------------------- message listeners
\* The messages the background listener and the content script of tab 1
\* receive, one at a time.  replies records, for the message handled last,
\* how often its handler called sendResponse before the listener was done
\* with it; both listeners return true, which keeps the channel open.
ContentTypes ==
    {"settingsUpdated", "settingsChanged", "openFloatingInput", "getSettings",
     "ping", "showToast", "other"}
BackgroundTypes ==
    {"getSettings", "setSettings", "resetSettings", "restrictionDetected",
     "ping", "other"}

\* the sendResponse calls of the content script's Messaging.handleMessage:
\* message.settings.mainEnabled throws for a message without settings, and
\* ErrorHandler.wrap swallows the TypeError before sendResponse is reached
Messaging_sendResponses(type, settings) ==
    CASE type \in {"settingsUpdated", "settingsChanged"} ->
             IF settings.kind \in {"undefined", "null"} THEN 0 ELSE 1
      [] type = "openFloatingInput" -> 1    \* either branch of the if
      [] type \in {"getSettings", "ping", "showToast"} -> 1
      [] OTHER -> 1                         \* default: 'Unknown message type'

\* the sendResponse calls of the background's MessageHandler.handle; threw:
\* the awaited storage call rejected and the catch block answers
MessageHandler_sendResponses(type, threw) ==
    CASE type \in {"getSettings", "setSettings", "resetSettings",
                   "restrictionDetected"} -> IF threw THEN 1 ELSE 1
      [] type = "ping" -> 1
      [] OTHER -> 1                         \* default: 'Unknown message type: '

Answered(to, type, count) ==
    /\ replies' = [to |-> to, type |-> type, count |-> count]
    /\ UNCHANGED <<bc, everToggled, last, log, burst, dom>>

\* a message whose handler leaves the State of its receiver alone
Content_answers ==
    /\ cs[1].pc = "ready"
    /\ UNCHANGED progVars

Background_answers == UNCHANGED progVars

\* message.settings of a settings message: a settings object or nothing
MessageSettings ==
    {Obj(m, "true", "true", "true") : m \in Booleans} \cup {Undefined}

NextMessages ==
    \/ Page_init /\ UNCHANGED hist
    \/ Page_unload /\ UNCHANGED hist
    \/ \E type \in {"settingsUpdated", "settingsChanged"},
          s \in MessageSettings :
          /\ RunCalls(page, CallsOfMessage(cs[1], s)).observers
                <= MaxEnables * ObserversPerEnable
          /\ Page_settingsMessage(s)
          /\ Answered("content", type, Messaging_sendResponses(type, s))
    \/ /\ Page_openFloatingInput
       /\ Answered("content", "openFloatingInput",
                   Messaging_sendResponses("openFloatingInput", Undefined))
    \/ \E type \in {"getSettings", "ping", "showToast", "other"} :
          /\ Content_answers
          /\ Answered("content", type, Messaging_sendResponses(type, Undefined))
    \/ \E r \in BOOLEAN : Content_detect(1, 1, r) /\ UNCHANGED hist
    \/ /\ DeliverRestriction(1)
       /\ Answered("background", "restrictionDetected",
                   MessageHandler_sendResponses("restrictionDetected", FALSE))
    \/ \E s \in MessageSettings :
          /\ HandleSetSettings(s)
          /\ Answered("background", "setSettings",
                      MessageHandler_sendResponses("setSettings", FALSE))
    \/ /\ HandleResetSettings
       /\ Answered("background", "resetSettings",
                   MessageHandler_sendResponses("resetSettings", FALSE))
    \/ \E type \in {"getSettings", "ping", "other"}, threw \in BOOLEAN :
          /\ Background_answers
          /\ Answered("background", type, MessageHandler_sendResponses(type, threw))

SpecMessages == Init /\ [][NextMessages]_vars

\* ------------------------------------------------------------- debounce
\* The popup in time.  A click follows the previous one in the same burst if
\* less than DEBOUNCE_DELAY ms have passed; a timer that is due runs before
\* anything else does; a save takes any time.
Timed(name, b) ==
    /\ last' = name
    /\ burst' = b
    /\ UNCHANGED <<bc, everToggled, log, replies, dom>>

TimerDue == pTimer /\ burst.armed >= DEBOUNCE_DELAY
SameBurst == burst.clicks > 0 /\ burst.since < DEBOUNCE_DELAY

Burst_click(key) ==
    /\ ~TimerDue
    /\ SameBurst => burst.clicks < MaxClicks
    /\ Popup_click(key)
    /\ Timed("click",
             [clicks |-> IF SameBurst THEN burst.clicks + 1 ELSE 1,
              calls  |-> IF SameBurst THEN burst.calls ELSE 0,
              since  |-> 0,
              armed  |-> Debounce_arm(pTimer, burst.armed),
              call   |-> IF SameBurst THEN burst.call ELSE "none",
              failed |-> burst.failed])

\* TickMs ms pass
Burst_tick ==
    /\ pPc = "open"
    /\ ~TimerDue
    /\ SameBurst
    /\ UNCHANGED progVars
    /\ Timed("tick", [burst EXCEPT !.since = @ + TickMs,
                                   !.armed = IF pTimer THEN @ + TickMs ELSE @])

\* the timer of debouncedSave fires: the call of saveAndNotify
Burst_timer ==
    /\ TimerDue
    /\ Popup_saveAndNotify
    /\ Timed("timer", [burst EXCEPT !.calls = @ + 1, !.armed = 0,
                                    !.call = IF pUpdating THEN "skipped"
                                             ELSE "running"])

Burst_saveSettings(ok) ==
    /\ Popup_saveSettings(ok)
    /\ Timed("save", IF ok THEN burst
                     ELSE [burst EXCEPT !.failed = TRUE,
                                        !.call = IF @ = "running" THEN "failed"
                                                 ELSE @])

Burst_notified ==
    /\ Popup_notified
    /\ Timed("notified", IF burst.call = "running"
                         THEN [burst EXCEPT !.call = "saved"] ELSE burst)

BurstKeys == {"main", "copy"}

NextBurst ==
    \/ Popup_init /\ Timed("popup", NoBurst)
    \/ \E k \in BurstKeys : Burst_click(k)
    \/ Burst_tick
    \/ Burst_timer
    \/ \E ok \in BOOLEAN : Burst_saveSettings(ok)
    \/ Popup_notifyAllTabs /\ Timed("notify", burst)
    \/ \E m \in net : Deliver(m) /\ Timed("deliver", burst)
    \/ Burst_notified
    \/ Popup_close /\ Timed("close", NoBurst)

SpecBurst == Init /\ [][NextBurst]_vars

\* ------------------------------------------------------------- batching
\* The content script of tab 1 with the mutation records of its page, in
\* time.  dom records how many records were delivered, which of them were
\* accepted (valid, and delivered while the plugin was enabled), how often
\* each was handled by a batchProcess run, how many runs the timer has
\* started, and the ms since the last delivery.
Records == 1..MaxMutations

RECURSIVE SeqsUpTo(_, _)
SeqsUpTo(S, n) ==
    IF n = 0 THEN {<<>>}
    ELSE SeqsUpTo(S, n - 1)
            \cup {Append(q, x) : q \in {r \in SeqsUpTo(S, n - 1) : Len(r) = n - 1},
                                 x \in S}

Range(q) == {q[i] : i \in 1..Len(q)}
Occurrences(q, x) == Cardinality({i \in 1..Len(q) : q[i] = x})

Observed(name, d) ==
    /\ last' = name
    /\ dom' = d
    /\ UNCHANGED <<bc, everToggled, log, burst, replies>>

Dom_mutations(mutations) ==
    /\ dom.arrived + Len(mutations) <= MaxMutations
    /\ Page_mutations(mutations, dom.arrived + 1)
    /\ Observed("mutations",
                [dom EXCEPT !.arrived = @ + Len(mutations),
                            !.accepted =
                                IF Truthy(cs[1].settings.mainEnabled)
                                THEN @ \cup Range(ValidMutations(mutations, dom.arrived + 1))
                                ELSE @,
                            !.idle = 0])

Dom_batchTimer ==
    /\ Page_batchTimer
    /\ Observed("batch",
                [dom EXCEPT !.runs = @ + 1,
                            !.handled =
                    [r \in Records |->
                        @[r] + Occurrences(page.pendingMutations, r)
                             - Occurrences(page'.pendingMutations, r)]])

Dom_tick ==
    /\ Page_tick
    /\ Observed("tick", [dom EXCEPT !.idle = @ + DomTickMs])

NextDom ==
    \/ Page_init /\ Observed("init", dom)
    \/ \E m \in Booleans :
          /\ RunCalls(page, CallsOfMessage(cs[1], Obj(m, "true", "true", "true"))).observers
                <= MaxEnables * ObserversPerEnable
          /\ Page_settingsMessage(Obj(m, "true", "true", "true"))
          /\ Observed("message", dom)
    \/ \E mutations \in SeqsUpTo(MutationKinds, MaxRecords) \ {<<>>} :
          Dom_mutations(mutations)
    \/ Dom_tick
    \/ Dom_batchTimer

SpecDom == Init /\ [][NextDom]_vars

\* ------------------------------------------------------------- properties
AllBoolean(settings) ==
    /\ settings.kind = "object"
    /\ \A k \in Keys : IsBoolean(settings[k])

\* the flag validateSettings is to return for key k of input s
KeptOrDefault(s, k) ==
    IF s.kind = "object" /\ IsBoolean(s[k]) THEN s[k] ELSE DEFAULT_SETTINGS[k]

\* no save is waiting or running and no settings message is on its way
Quiescent ==
    /\ ~pTimer
    /\ pPhase = "idle"
    /\ ~pUpdating
    /\ net = {}
    /\ ~bgTask.active

\* C1: every record written under 'unlockSettings' and every State.settings
\* of the popup and of a content script has four boolean flags, and
\* validateSettings keeps a boolean flag of its input and puts the default
\* in the place of a missing or non-boolean flag and of a non-object input
\* (a fact about the function alone, evaluated before the first write).
SettingsAreBoolean ==
    /\ written => AllBoolean(stored)
    /\ AllBoolean(pSettings)
    /\ \A t \in Tabs : AllBoolean(cs[t].settings)
    /\ \A m \in net : AllBoolean(m.settings)
    /\ \A k \in Keys : getSettings[k] = KeptOrDefault(stored, k)
    /\ ~written =>
          \A s \in RawSettings : \A k \in Keys :
              validateSettings(s)[k] = KeptOrDefault(s, k)

\* C1 witness: the popup, a content script and the store all hold settings
\* that went through a write, with the main switch on
SettingsWrittenEverywhere ==
    /\ written
    /\ stored.mainEnabled = "true"
    /\ pPc = "open" /\ pSettings.mainEnabled = "false" /\ pTimer
    /\ \E t \in openTabs : cs[t].pc = "ready" /\ cs[t].settings.mainEnabled = "true"

\* C2 (as claimed): once the settings were written and nothing is pending,
\* every initialised content script holds the stored mainEnabled.
ContentScriptsFollowMainSwitch ==
    (written /\ Quiescent) =>
        \A t \in openTabs :
            cs[t].pc = "ready" => cs[t].settings.mainEnabled = getSettings.mainEnabled

\* C4 (as claimed): with no settings operation in progress and no restore
\* timer pending, the badge is 'ON' exactly when the stored mainEnabled is
\* true, and empty otherwise.
BadgeMatchesStored ==
    (Quiescent /\ timers = 0) =>
        badge = (IF stored.mainEnabled = "true" THEN "ON" ELSE "")

\* C3 (as claimed): while nothing is stored, the badge text is empty.
BadgeEmptyWhileNothingStored ==
    stored.kind = "undefined" => badge = ""

\* C3 (amended): install stores mainEnabled false and empties the badge; and
\* until the extension is first asked to switch on, the stored and the read
\* mainEnabled are false, the badge is empty or, while a restore timer of a
\* restriction notice is pending, '!', and a content script that initialises
\* does not enable its features and schedules the restriction detection.
OffByDefault ==
    /\ [](~everToggled =>
            /\ getSettings.mainEnabled = "false"
            /\ stored.kind = "object" => stored.mainEnabled = "false"
            /\ badge \in {"", "!"}
            /\ badge = "!" => timers > 0
            /\ \A t \in Tabs : ~cs[t].featuresOn)
    /\ [][OnInstalled_install => stored'.mainEnabled = "false" /\ badge' = ""]_vars
    /\ [][\A t \in Tabs :
            (~everToggled /\ cs[t].pc = "none" /\ cs'[t].pc = "ready")
                => cs'[t].detect /\ ~cs'[t].featuresOn]_vars

\* C3 witness: after a write of the defaults and before any request to
\* switch on, a content script has initialised and a notice shows '!'
NoticeWhileOff ==
    /\ ~everToggled
    /\ written
    /\ stored = DEFAULT_SETTINGS
    /\ badge = "!"
    /\ \E t \in openTabs : cs[t].pc = "ready" /\ ~cs[t].detect

\* C7: a 'restrictionDetected' message is answered notified:true only if the
\* stored mainEnabled is not true and the hostname is not listed; otherwise
\* the answer is notified:false and the list and the badge stay as they are.
RestrictionAnswer ==
    [][\A h \in Hosts :
         DeliverRestriction(h) =>
            LET skip == stored.mainEnabled = "true"
                        \/ \E i \in DOMAIN notifiedSites : notifiedSites[i] = h
            IN  /\ bgResp'.host = h
                /\ bgResp'.notified = "true" => ~skip
                /\ skip => /\ bgResp'.notified = "false"
                           /\ notifiedSites' = notifiedSites
                           /\ badge' = badge]_vars

\* C7 witness: a host already listed was answered notified:false while the
\* badge of an earlier notice is still shown
ListedHostSkipped ==
    /\ bgResp.notified = "false"
    /\ \E i \in DOMAIN notifiedSites : notifiedSites[i] = bgResp.host
    /\ stored.mainEnabled # "true"
    /\ badge = "!"

FlagOf(key) ==
    CASE key = "main"  -> "mainEnabled"
      [] key = "copy"  -> "copyEnabled"
      [] key = "paste" -> "pasteEnabled"
      [] key = "input" -> "inputEnabled"

\* the settings with exactly the flag of key negated
Flipped(settings, key) == [settings EXCEPT ![FlagOf(key)] = Not(@)]

\* C5 (as claimed): toggle('main') flips mainEnabled and nothing else;
\* toggle of a sub-switch flips exactly its flag when mainEnabled is true and
\* leaves State.settings unchanged when it is false.
ToggleFlipsNamedFlag ==
    [][\A k \in SwitchKeys :
         Popup_click(k) =>
            pSettings' = IF k = "main" \/ pSettings.mainEnabled = "true"
                         THEN Flipped(pSettings, k) ELSE pSettings]_vars

\* C5 (amended): while isUpdating is true toggle changes nothing; otherwise
\* toggle('main') flips mainEnabled and nothing else, and toggle of a
\* sub-switch flips exactly its flag when mainEnabled is true and leaves
\* State.settings unchanged when it is false.
ToggleFrame ==
    /\ [](\A s \in ValidSettings, k \in SwitchKeys :
            /\ Popup_toggle(s, TRUE, k) = s
            /\ Popup_toggle(s, FALSE, k) =
                  IF k = "main" \/ s.mainEnabled = "true" THEN Flipped(s, k) ELSE s)
    /\ [][\A k \in SwitchKeys :
            Popup_click(k) =>
               pSettings' = IF pUpdating THEN pSettings
                            ELSE IF k = "main" \/ pSettings.mainEnabled = "true"
                                 THEN Flipped(pSettings, k) ELSE pSettings]_vars

\* C5 witness: a switch is clicked during a save, after the paste switch and
\* then the main switch were flipped
ClickDuringSave ==
    /\ last = "click"
    /\ pUpdating
    /\ pSettings.pasteEnabled = "false"
    /\ pSettings.mainEnabled = "false"
    /\ pUi.mainEnabled = "true"

\* C6: a broadcast that has ended was sent to every open tab, whichever tabs
\* rejected it; togglePlugin never drops a tab from its loop; each message
\* carries the settings its sender saved; and the popup, once its broadcast
\* has ended, shows the settings it saved.
BroadcastReachesEveryTab ==
    /\ \A src \in {"popup", "bg"} :
          bc[src].phase = "done" => bc[src].sent = openTabs
    /\ bgTask.active =>
          bc.bg.sent \cup {bgTask.todo[i] : i \in DOMAIN bgTask.todo} = openTabs
    /\ \A m \in net :
          m.settings = IF m.src = "bg" THEN bgTask.settings ELSE pSettings
    /\ (bc.popup.phase = "done" /\ ~pTimer) => pUi = pSettings

\* C6 witness: both broadcasts have ended, each with a tab that rejected the
\* message and a tab whose content script holds the settings sent
BroadcastWithRejection ==
    /\ bc.bg.phase = "done" /\ bc.bg.failed # {} /\ bc.bg.failed # openTabs
    /\ bc.popup.phase = "done" /\ bc.popup.failed # {} /\ bc.popup.failed # openTabs
    /\ ~pTimer /\ pUi = pSettings
    /\ \E t \in openTabs : cs[t].pc = "ready" /\ cs[t].settings = pSettings

\* the last n elements of seq
LastOf(seq, n) == SubSeq(seq, Len(seq) - n + 1, Len(seq))

OthersKept(h) == \A g \in Hosts \ {h} : siteSettings'[g] = siteSettings[g]

\* the step is the handling of a 'setSiteSettings' message for h with
\* settings s at time now
SetStep(h, s, now) ==
    /\ siteResp'.type = "setSiteSettings"
    /\ siteResp'.host = h
    /\ HandleSetSiteSettings(h, s, now, siteResp'.success = "true")

\* the step is the handling of a 'clearSiteSettings' message for h
ClearStep(h) ==
    /\ siteResp'.type = "clearSiteSettings"
    /\ siteResp'.host = h
    /\ HandleClearSiteSettings(h, siteResp'.success = "true")

UpdateKeepsFlags ==
    [][OnInstalled_update =>
          /\ stored'.kind = "object"
          /\ \A k \in Keys : stored'[k] = KeptOrDefault(stored, k)
          /\ badge' = IF stored'.mainEnabled = "true" THEN "ON" ELSE ""]_vars

\* C10 witness: an update has just run on settings the user changed in the
\* popup
UpdatedAfterUserChoice ==
    /\ last = "update"
    /\ stored.mainEnabled = "true"
    /\ stored.pasteEnabled = "false"
    /\ badge = "ON"

\* C11 (as claimed): after App.disableFeatures returns, State.observers,
\* State.eventListeners and State.featureCleanupFns are empty,
\* FloatingInput.currentBox is null and typingState.isTyping is false.
DisableLeavesNothing ==
    last = "disable" =>
        /\ page.observers = 0
        /\ page.eventListeners = 0
        /\ page.featureCleanupFns = 0
        /\ page.currentBox = "null"
        /\ ~page.isTyping

\* C12 (as claimed): every message delivered to the background listener or
\* to a content-script listener has sendResponse called exactly once, a
\* 'settingsUpdated'/'settingsChanged' message without settings included.
EveryMessageAnsweredOnce ==
    replies.to # "none" => replies.count = 1

\* C13: in the popup at most one saveAndNotify is in progress: isUpdating is
\* true exactly while a save is between its guard and its finally block, a
\* saveAndNotify started while isUpdating is true neither writes storage nor
\* notifies tabs, State.toggle called while isUpdating is true leaves
\* State.settings unchanged, and isUpdating is false after every save.
OneSaveAtATime ==
    /\ [](pUpdating <=> pPhase # "idle")
    /\ [][(last' = "timer" /\ pUpdating)
             => UNCHANGED <<storeVars, net, pPhase, pUpdating, pSettings>>]_vars
    /\ [][(last' = "click" /\ pUpdating) => pSettings' = pSettings]_vars
    /\ [][(last' \in {"save", "notified"} /\ pPhase' = "idle") => ~pUpdating']_vars

\* the debounce timer has fired while a save was past its storage write
SaveSkippedWhileUpdating ==
    /\ last = "timer"
    /\ pPhase \in {"saved", "notifying"}
    /\ pUpdating

\* C14 (as claimed): a burst of clicks causes exactly one saveAndNotify
\* call, and that call persists the State.settings that result from all
\* clicks of the burst: once the call has returned, the stored record
\* equals State.settings.
BurstCallPersists ==
    burst.call \in {"skipped", "failed", "saved"} => stored = pSettings

\* C14 (amended): while the popup stays open, a burst of clicks causes
\* exactly one saveAndNotify call, made DEBOUNCE_DELAY ms after the last
\* click; a call made while no save is in progress whose storage write
\* succeeds persists the State.settings that result from all clicks of the
\* burst; a call made while a save is in progress returns without writing.
DebouncedBurst ==
    /\ [](pPc = "open" /\ burst.clicks > 0
            => burst.calls = IF pTimer THEN 0 ELSE 1)
    /\ [][burst'.calls = burst.calls + 1
            => /\ burst.since >= DEBOUNCE_DELAY
               /\ burst.since < DEBOUNCE_DELAY + TickMs]_vars
    /\ [](burst.call = "saved" => stored = pSettings)
    /\ [][(burst'.call = "skipped" /\ burst.call # "skipped")
            => UNCHANGED <<storeVars, net, pPhase>>]_vars

\* a burst of several clicks whose one call has saved and notified
BurstSaved ==
    /\ burst.clicks >= 2
    /\ burst.calls = 1
    /\ burst.call = "saved"
    /\ pSettings # DEFAULT_SETTINGS

\* C15: after any clicks on the popup's switches, once the debounce timer
\* has fired and every save has completed, and provided no storage write
\* has failed, the stored record has the four flags of State.settings.
NoToggleLeftUnsaved ==
    (/\ pPc = "open"
     /\ burst.clicks > 0
     /\ ~pTimer
     /\ pPhase = "idle"
     /\ ~burst.failed)
        => \A k \in Keys : stored[k] = pSettings[k]

\* main was switched on and saved, then copy was switched off and saved
TwoTogglesSaved ==
    /\ pPc = "open"
    /\ burst.clicks > 0
    /\ ~pTimer
    /\ pPhase = "idle"
    /\ ~burst.failed
    /\ pSettings.mainEnabled = "true"
    /\ pSettings.copyEnabled = "false"

\* C16: SmartDOMObserver batches mutations without loss or repetition: every
\* record accepted while the plugin is enabled is either queued once and not
\* handled yet, or handled by exactly one batchProcess run; no other record
\* is queued or handled; a batchProcess run drains the whole queue; a queued
\* record waits no longer than THROTTLE_DELAY ms after the last delivery; a
\* delivery of accepted records while the timer is pending re-arms the timer
\* and handles nothing.
BatchedOnce ==
    /\ [](\A r \in Records :
            Occurrences(page.pendingMutations, r) + dom.handled[r]
                = IF r \in dom.accepted THEN 1 ELSE 0)
    /\ [](page.pendingMutations # <<>>
            => page.batchTimer /\ dom.idle < THROTTLE_DELAY + DomTickMs)
    /\ [][last' = "batch" /\ page.pendingMutations # <<>>
            => page'.pendingMutations = <<>>]_vars
    /\ [][(last' = "mutations" /\ dom'.accepted # dom.accepted)
            => /\ page'.batchTimer /\ page'.batchAge = 0
               /\ dom'.handled = dom.handled]_vars

\* two deliveries were batched into one run: the second postponed the timer
TwoDeliveriesOneBatch ==
    /\ last = "batch"
    /\ dom.runs = 1
    /\ Cardinality(dom.accepted) > MaxRecords
    /\ \A r \in dom.accepted : dom.handled[r] = 1
    /\ page.pendingMutations = <<>>

====
